---- MODULE Spec2Model ----
(***************************************************************************)
(* Beam-search decoding, BaseModel.generator of src/lmp/model.py.          *)
(*                                                                         *)
(* Token ids are 0 .. vocab_size-1.  The tokenizer is an external          *)
(* collaborator: begin_of_sentence is taken at the level of the ids that   *)
(* tokenizer.convert_sentences_to_ids returns for it (one id per symbol),  *)
(* so the empty text is the empty sequence.                                *)
(*                                                                         *)
(* A probability is a numerator n over Denom = 2^LogDenom, n either 0 or a *)
(* power of two, so that -log(n/Denom) is an exact integer in units of     *)
(* log 2.  A softmax row is a function [0..vocab_size-1 -> ProbLevels]     *)
(* whose numerators sum to Denom.                                          *)
(***************************************************************************)
EXTENDS Integers, Sequences, FiniteSets, TLC

\* ---- bounds of the exploration ----
MaxBeam == 3
MaxLen == 4
MaxSeedLen == 2
MinVocab == 2
MaxVocab == 3
LogDenom == 2

\* ---- tokenizer attributes ----
eos_token_id == 1

\* min_value = 999999999, the initial best combined score of a selection round
InitMinValue == 999999999

RECURSIVE Pow2(_)
Pow2(k) == IF k = 0 THEN 1 ELSE 2 * Pow2(k - 1)

Denom == Pow2(LogDenom)

ProbLevels == {0} \cup {Pow2(k) : k \in 0..LogDenom}

Vocab(V) == 0..(V - 1)

RECURSIVE SumTo(_, _)
SumTo(d, n) == IF n < 0 THEN 0 ELSE d[n] + SumTo(d, n - 1)

\* the rows torch.nn.functional.softmax can return over V ids
Dists(V) == {d \in [Vocab(V) -> ProbLevels] : SumTo(d, V - 1) = Denom}

Support(d) == Cardinality({v \in DOMAIN d : d[v] > 0})

\* the rows with at least k ids of positive probability
WideDists(V, k) == {d \in Dists(V) : Support(d) >= k}

SeqsUpTo(S, n) == UNION {[1..k -> S] : k \in 0..n}

Last(s) == s[Len(s)]

\* ---- floating point values of the selection ----
\* -log(0.0) is +inf; inf + x is inf; inf < 999999999 is false.  Since a value is
\* only ever compared with min_value <= 999999999 and stored when smaller, +inf
\* is represented by a number above every storable value.
PosInf == 2 * InitMinValue

RECURSIVE Log2Steps(_)
Log2Steps(n) == IF n >= Denom THEN 0 ELSE 1 + Log2Steps(2 * n)

\* -torch.log(p) for the probability p = n / Denom
NegLog(n) == IF n = 0 THEN PosInf ELSE Log2Steps(n)

VARIABLES
    pc,               \* position in generator
    tokenizer,        \* [vocab_size |-> ...], the tokenizer's attributes
    begin_of_sentence,
    beam_width,
    max_len,
    all_ids,          \* candidates of the current iteration
    all_ids_prob,     \* their scores
    active_ids,
    active_ids_prob,
    generate_result,
    batch_pred_y,     \* softmax row read for each active candidate
    top_value,        \* per-candidate top-k buffers
    final_top_value,  \* options chosen by the global selection
    forward_calls,    \* number of calls self(batch_x)
    error             \* exception that ended the call, or "none"

vars == <<pc, tokenizer, begin_of_sentence, beam_width, max_len, all_ids,
          all_ids_prob, active_ids, active_ids_prob, generate_result,
          batch_pred_y, top_value, final_top_value, forward_calls, error>>

params == <<tokenizer, begin_of_sentence, beam_width, max_len>>

\* ---- state before the call ----
\* Vs: the vocabulary sizes, Ls: the values of max_len
InitOver(Vs, Ls) ==
    /\ pc = "call"
    /\ \E V \in Vs :
         /\ tokenizer = [vocab_size |-> V]
         /\ begin_of_sentence \in SeqsUpTo(Vocab(V), MaxSeedLen)
    /\ beam_width \in 0..MaxBeam
    /\ max_len \in Ls
    /\ all_ids = <<>>
    /\ all_ids_prob = <<>>
    /\ active_ids = <<>>
    /\ active_ids_prob = <<>>
    /\ generate_result = <<>>
    /\ batch_pred_y = <<>>
    /\ top_value = <<>>
    /\ final_top_value = <<>>
    /\ forward_calls = 0
    /\ error = "none"

Init == InitOver(MinVocab..MaxVocab, 0..MaxLen)

\* ---- lines 71-78: argument check, tokenisation, the seed candidate ----
\* the argument check left out
SeedIsEmptyNever(s) == FALSE

\* line 71
SeedIsEmpty(s) == Len(s) = 0

Call ==
    /\ pc = "call"
    /\ IF SeedIsEmpty(begin_of_sentence)
       THEN /\ pc' = "raised"
            /\ error' = "ValueError"
            /\ UNCHANGED <<all_ids, all_ids_prob>>
       ELSE /\ pc' = "partition"
            /\ all_ids' = <<begin_of_sentence>>
            /\ all_ids_prob' = <<0>>
            /\ UNCHANGED error
    /\ UNCHANGED <<params, active_ids, active_ids_prob, generate_result,
                   batch_pred_y, top_value, final_top_value, forward_calls>>

\* ---- lines 81-94: partition and termination check ----
\* line 86
IsActive(ids, maxlen) == Last(ids) # eos_token_id /\ Len(ids) < maxlen

\* the cap of line 89 left out
HasRoomAlways(g, bw) == TRUE

\* line 89
HasRoom(g, bw) == Len(g) < bw

\* lines 85-90, candidates i..Len(ids_list) folded into acc = [a, p, g]
RECURSIVE PartitionFrom(_, _, _, _, _, _)
PartitionFrom(i, ids_list, probs, acc, bw, maxlen) ==
    IF i > Len(ids_list) THEN acc
    ELSE IF IsActive(ids_list[i], maxlen)
         THEN PartitionFrom(i + 1, ids_list, probs,
                            [acc EXCEPT !.a = Append(@, ids_list[i]),
                                        !.p = Append(@, probs[i])],
                            bw, maxlen)
         ELSE IF HasRoom(acc.g, bw)
              THEN PartitionFrom(i + 1, ids_list, probs,
                                 [acc EXCEPT !.g = Append(@, ids_list[i])],
                                 bw, maxlen)
              ELSE PartitionFrom(i + 1, ids_list, probs, acc, bw, maxlen)

\* line 93 without its second condition
LoopExitOnlyEmpty(a, g, bw) == Len(a) = 0

\* line 93 with the cap off by one
LoopExitOffByOne(a, g, bw) == Len(a) = 0 \/ Len(g) >= bw - 1

\* line 93
LoopExit(a, g, bw) == Len(a) = 0 \/ Len(g) >= bw

Partition ==
    /\ pc = "partition"
    /\ LET r == PartitionFrom(1, all_ids, all_ids_prob,
                              [a |-> <<>>, p |-> <<>>, g |-> generate_result],
                              beam_width, max_len)
       IN /\ active_ids' = r.a
          /\ active_ids_prob' = r.p
          /\ generate_result' = r.g
          /\ pc' = IF LoopExit(r.a, r.g, beam_width) THEN "strip" ELSE "forward"
    /\ UNCHANGED <<params, all_ids, all_ids_prob, batch_pred_y, top_value,
                   final_top_value, forward_calls, error>>

\* ---- lines 96-129: one model call, then one top-k buffer per active candidate ----
\* lines 109-112: beam_width slots holding (eos, 0); the 0 is a Python int, not a tensor
Sentinel == [vocab_id |-> eos_token_id, value |-> 0, tensor |-> FALSE]

EmptyBuffer(bw) == [i \in 1..bw |-> Sentinel]

\* lines 118-121 without the step back of line 120
LevelNoStepBack(buf, p, bw) ==
    LET below == {l \in 0..(bw - 1) : p < buf[l + 1].value}
    IN IF below = {} THEN bw - 1
       ELSE CHOOSE l \in below : \A m \in below : l <= m

\* lines 118-121: the slot (counted from 0) the offered probability goes to
Level(buf, p, bw) ==
    LET below == {l \in 0..(bw - 1) : p < buf[l + 1].value}
    IN IF below = {} THEN bw - 1
       ELSE (CHOOSE l \in below : \A m \in below : l <= m) - 1

\* lines 115-127 with the test of line 115 reversed: the smallest are kept
OfferKeepSmallest(buf, vocab_id, p, bw) ==
    IF p > buf[1].value THEN buf
    ELSE LET level == Level(buf, p, bw)
             entry == [vocab_id |-> vocab_id, value |-> p, tensor |-> TRUE]
         IN [i \in 1..bw |->
                IF i - 1 < level THEN buf[i + 1]
                ELSE IF i - 1 = level THEN entry
                ELSE buf[i]]

\* lines 115-127: offer (vocab_id, p) to the ascending buffer
Offer(buf, vocab_id, p, bw) ==
    IF p < buf[1].value THEN buf
    ELSE LET level == Level(buf, p, bw)
             entry == [vocab_id |-> vocab_id, value |-> p, tensor |-> TRUE]
         IN [i \in 1..bw |->
                IF i - 1 < level THEN buf[i + 1]
                ELSE IF i - 1 = level THEN entry
                ELSE buf[i]]

\* lines 114-127: vocabulary ids vocab_id .. V-1 offered in ascending order
RECURSIVE OfferFrom(_, _, _, _, _)
OfferFrom(vocab_id, buf, row, V, bw) ==
    IF vocab_id >= V THEN buf
    ELSE OfferFrom(vocab_id + 1, Offer(buf, vocab_id, row[vocab_id], bw), row, V, bw)

\* lines 109-129 for one candidate
TopK(row, V, bw) == OfferFrom(0, EmptyBuffer(bw), row, V, bw)

ForwardOver(D) ==
    /\ pc = "forward"
    /\ \E rows \in [1..Len(active_ids) -> D] :
         /\ batch_pred_y' = rows
         /\ top_value' = [b \in 1..Len(active_ids) |->
                             TopK(rows[b], tokenizer.vocab_size, beam_width)]
    /\ forward_calls' = forward_calls + 1
    /\ pc' = "select"
    /\ UNCHANGED <<params, all_ids, all_ids_prob, active_ids, active_ids_prob,
                   generate_result, final_top_value, error>>

Forward == ForwardOver(Dists(tokenizer.vocab_size))

\* ---- lines 132-152: global selection of beam_width options ----
\* line 140 fails on an empty buffer (IndexError) and on the int 0 of a sentinel
\* (torch.log takes a tensor: TypeError); the first candidate scanned decides
ReadError(buf) ==
    IF Len(buf) = 0 THEN "IndexError"
    ELSE IF ~Last(buf).tensor THEN "TypeError"
    ELSE "none"

RECURSIVE ScanError(_, _)
ScanError(beam_id, tv) ==
    IF beam_id >= Len(tv) THEN "none"
    ELSE IF ReadError(tv[beam_id + 1]) # "none" THEN ReadError(tv[beam_id + 1])
    ELSE ScanError(beam_id + 1, tv)

\* line 140 with the parent's score forgotten
CombinedValueNoParent(buf, prob) == NegLog(Last(buf).value)

\* line 140 with the sign of the logarithm lost
CombinedValueSignLost(buf, prob) == prob - NegLog(Last(buf).value)

\* line 140
CombinedValue(buf, prob) == NegLog(Last(buf).value) + prob

\* lines 139-144 with <= in line 141: the last of equal values wins
RECURSIVE ScanLastWins(_, _, _, _)
ScanLastWins(beam_id, tv, probs, best) ==
    IF beam_id >= Len(tv) THEN best
    ELSE LET value == CombinedValue(tv[beam_id + 1], probs[beam_id + 1])
         IN IF value <= best.value
            THEN ScanLastWins(beam_id + 1, tv, probs,
                              [beam_id |-> beam_id,
                               vocab_id |-> Last(tv[beam_id + 1]).vocab_id,
                               value |-> value])
            ELSE ScanLastWins(beam_id + 1, tv, probs, best)

\* lines 139-144: candidates beam_id .. scanned, best so far in best
RECURSIVE Scan(_, _, _, _)
Scan(beam_id, tv, probs, best) ==
    IF beam_id >= Len(tv) THEN best
    ELSE LET value == CombinedValue(tv[beam_id + 1], probs[beam_id + 1])
         IN IF value < best.value
            THEN Scan(beam_id + 1, tv, probs,
                      [beam_id |-> beam_id,
                       vocab_id |-> Last(tv[beam_id + 1]).vocab_id,
                       value |-> value])
            ELSE Scan(beam_id + 1, tv, probs, best)

\* lines 135-137
RoundStart == [beam_id |-> 0, vocab_id |-> eos_token_id, value |-> InitMinValue]

\* line 152 removing two entries instead of one
PopTwo(buf) == SubSeq(buf, 1, Len(buf) - 2)

\* line 152
Pop(buf) == SubSeq(buf, 1, Len(buf) - 1)

\* lines 134-152: rounds i .. beam_width-1
RECURSIVE SelectFrom(_, _, _, _, _)
SelectFrom(i, tv, probs, chosen, bw) ==
    IF i >= bw THEN [error |-> "none", top_value |-> tv, final_top_value |-> chosen]
    ELSE IF ScanError(0, tv) # "none"
         THEN [error |-> ScanError(0, tv), top_value |-> tv, final_top_value |-> chosen]
    ELSE LET best == Scan(0, tv, probs, RoundStart)
         IN IF Len(tv[best.beam_id + 1]) = 0
            THEN [error |-> "IndexError", top_value |-> tv, final_top_value |-> chosen]
            ELSE SelectFrom(i + 1,
                            [tv EXCEPT ![best.beam_id + 1] = Pop(@)],
                            probs, Append(chosen, best), bw)

Select ==
    /\ pc = "select"
    /\ LET r == SelectFrom(0, top_value, active_ids_prob, <<>>, beam_width)
       IN /\ top_value' = r.top_value
          /\ final_top_value' = r.final_top_value
          /\ error' = r.error
          /\ pc' = IF r.error = "none" THEN "expand" ELSE "raised"
    /\ UNCHANGED <<params, all_ids, all_ids_prob, active_ids, active_ids_prob,
                   generate_result, batch_pred_y, forward_calls>>

\* ---- lines 155-159: the chosen options become the next candidates ----
\* line 158 without "+ [obj['vocab_id']]": the parent is copied unchanged
ChildNoAppend(parents, obj) == parents[obj.beam_id + 1]

Child(parents, obj) == Append(parents[obj.beam_id + 1], obj.vocab_id)

\* batch_pred_y, top_value and final_top_value are reassigned (lines 101, 104,
\* 132) before they are read again
Expand ==
    /\ pc = "expand"
    /\ all_ids' = [k \in 1..Len(final_top_value) |-> Child(active_ids, final_top_value[k])]
    /\ all_ids_prob' = [k \in 1..Len(final_top_value) |-> final_top_value[k].value]
    /\ batch_pred_y' = <<>>
    /\ top_value' = <<>>
    /\ final_top_value' = <<>>
    /\ pc' = "partition"
    /\ UNCHANGED <<params, active_ids, active_ids_prob, generate_result,
                   forward_calls, error>>

\* ---- lines 161-164: strip one trailing eos from every result ----
\* lines 162-163 left out
StripNothing(ids) == ids

\* lines 162-163
Strip(ids) == IF Last(ids) = eos_token_id THEN SubSeq(ids, 1, Len(ids) - 1) ELSE ids

PostProcess ==
    /\ pc = "strip"
    /\ generate_result' = [k \in 1..Len(generate_result) |-> Strip(generate_result[k])]
    /\ pc' = "returned"
    /\ UNCHANGED <<params, all_ids, all_ids_prob, active_ids, active_ids_prob,
                   batch_pred_y, top_value, final_top_value, forward_calls, error>>

Next == Call \/ Partition \/ Forward \/ Select \/ Expand \/ PostProcess

Spec == Init /\ [][Next]_vars

\* generator is one synchronous call on one thread: a step that can be taken is taken
InitFair == InitOver(MinVocab..MaxVocab, 0..(MaxLen - 1))

FairSpec == InitFair /\ [][Next]_vars /\ WF_vars(Next)

\* ---- the model gives positive probability to more than beam_width ids ----
InitWide == InitOver(MaxVocab..(MaxVocab + 1), 0..(MaxLen - 1))

ForwardWide == ForwardOver(WideDists(tokenizer.vocab_size, beam_width + 1))

NextWide == Call \/ Partition \/ ForwardWide \/ Select \/ Expand \/ PostProcess

SpecWide == InitWide /\ [][NextWide]_vars

\* ======================= properties =======================
Returned == pc = "returned"

Raised == pc = "raised"

ValidArgs == Len(begin_of_sentence) > 0 /\ beam_width >= 1 /\ max_len >= 1

EndsWithEos(ids) == Len(ids) > 0 /\ Last(ids) = eos_token_id

EndsWithTwoEos(ids) ==
    Len(ids) >= 2 /\ ids[Len(ids)] = eos_token_id /\ ids[Len(ids) - 1] = eos_token_id

\* C1: for beam_width >= 1, max_len >= 1 and a non-empty seed, the list decode
\* builds and returns never holds more than beam_width sequences.
C1_AtMostBeamWidth ==
    ValidArgs => Len(generate_result) <= beam_width

\* a call that filled the list up to beam_width >= 2 over several iterations
C1_Witness ==
    /\ Returned /\ ValidArgs /\ beam_width >= 2
    /\ forward_calls >= 2
    /\ Len(generate_result) = beam_width

\* C2: every sequence in the result has, before stripping, a length of at most
\* max_len, for every seed (also one as long as or longer than max_len).
C2_LengthAtMostMaxLen ==
    (pc = "strip" /\ ValidArgs) =>
        \A k \in 1..Len(generate_result) : Len(generate_result[k]) <= max_len

\* C3 as stated: after post-processing no returned sequence ends with eos
\* (stripping once more changes nothing), for every seed.
C3_NoTrailingEos ==
    (Returned /\ ValidArgs) =>
        \A k \in 1..Len(generate_result) : ~EndsWithEos(generate_result[k])

\* C3 amended: after post-processing no returned sequence ends with eos, provided
\* the seed does not itself end with two or more eos tokens.
C3_NoTrailingEosUnlessSeedDoubled ==
    (Returned /\ ~EndsWithTwoEos(begin_of_sentence)) =>
        \A k \in 1..Len(generate_result) : ~EndsWithEos(generate_result[k])

\* a generated sequence that ended with eos was stripped (it is shorter than
\* max_len although complete), next to one that was cut at max_len
C3_Witness ==
    /\ Returned /\ ValidArgs /\ forward_calls >= 1
    /\ ~EndsWithTwoEos(begin_of_sentence)
    /\ \E k \in 1..Len(generate_result) : Len(generate_result[k]) < max_len
    /\ \E k \in 1..Len(generate_result) : Len(generate_result[k]) = max_len

\* the probability the model gave to the token of a chosen option
OptionProb(obj) == batch_pred_y[obj.beam_id + 1][obj.vocab_id]

\* C5: the seed has score 0 and every option chosen by the selection has a
\* score not below the score of the candidate it extends; unless it is the
\* 999999999 of a round that found nothing, it is the parent's score plus the
\* cost -log(probability) >= 0 of the appended token.
C5_ScoreNonDecreasing ==
    /\ (pc = "partition" /\ forward_calls = 0) => all_ids_prob = <<0>>
    /\ pc = "expand" =>
          \A k \in 1..Len(final_top_value) :
              LET obj == final_top_value[k]
                  parent == active_ids_prob[obj.beam_id + 1]
              IN /\ obj.value >= parent
                 /\ obj.value # InitMinValue =>
                       /\ NegLog(OptionProb(obj)) >= 0
                       /\ obj.value = parent + NegLog(OptionProb(obj))

\* a second-generation option: its parent has a positive score and it costs more
C5_Witness ==
    /\ pc = "expand"
    /\ \E k \in 1..Len(final_top_value) :
          /\ active_ids_prob[final_top_value[k].beam_id + 1] > 0
          /\ final_top_value[k].value > active_ids_prob[final_top_value[k].beam_id + 1]

\* the highest probability of a row and the ids that have it
MaxProb(row) == CHOOSE m \in {row[v] : v \in DOMAIN row} : \A v \in DOMAIN row : row[v] <= m

ArgMax(row) == {v \in DOMAIN row : row[v] = MaxProb(row)}

\* C6: with beam_width = 1 every iteration has exactly one active candidate and
\* the expansion replaces it by itself extended with a token of the highest
\* probability in its row, as a greedy decoder does.
C6_GreedyStep ==
    [][(pc = "expand" /\ beam_width = 1) =>
          /\ Len(active_ids) = 1
          /\ \E t \in ArgMax(batch_pred_y[1]) :
                /\ all_ids' = <<Append(active_ids[1], t)>>
                /\ all_ids_prob' = <<active_ids_prob[1] + NegLog(batch_pred_y[1][t])>>]_vars

\* the second greedy step, on a row whose maximum is unique and is not the last id
C6_Witness ==
    /\ pc = "expand" /\ beam_width = 1 /\ forward_calls = 2
    /\ Cardinality(ArgMax(batch_pred_y[1])) = 1
    /\ batch_pred_y[1][0] = MaxProb(batch_pred_y[1])

\* C7 (under SpecWide: every row has more than beam_width ids of positive
\* probability): for beam_width >= 1 and a seed that is not complete, decode raises
\* nothing and returns exactly beam_width sequences.
C7_ExactlyBeamWidth ==
    (ValidArgs /\ IsActive(begin_of_sentence, max_len)) =>
        /\ error = "none"
        /\ Returned => Len(generate_result) = beam_width

C7_Witness ==
    /\ Returned /\ beam_width = 3 /\ IsActive(begin_of_sentence, max_len)
    /\ forward_calls >= 2
    /\ Len(generate_result) = 3

\* C8: a call with an empty seed ends with the ValueError of line 72 before any
\* candidate exists and without any call of the model.
C8_EmptySeedRaises ==
    /\ (Len(begin_of_sentence) = 0 /\ pc # "call") =>
          (Raised /\ error = "ValueError" /\ all_ids = <<>> /\ forward_calls = 0)
    /\ error = "ValueError" => forward_calls = 0

C8_Witness == Raised /\ error = "ValueError" /\ Len(begin_of_sentence) = 0

\* C9: a call with beam_width <= 0 or max_len <= 0 ends with an invalid-input
\* error (ValueError) instead of returning a result.
C9_NonPositiveRaises ==
    ((Returned \/ Raised) /\ (beam_width <= 0 \/ max_len <= 0)) => error = "ValueError"

Max0(n) == IF n > 0 THEN n ELSE 0

\* C10: for a non-empty seed, beam_width >= 1 and max_len >= 1 and every model
\* distribution the decode loop reaches its exit (the break of line 94, after
\* which the results are post-processed and returned), and the model is called
\* at most max(0, max_len - len(seed)) times.
C10_ReachesExit ==
    /\ [](ValidArgs => forward_calls <= Max0(max_len - Len(begin_of_sentence)))
    /\ (ValidArgs => <>(pc = "strip"))

\* ---- global selection against all pairs (candidate, vocabulary id) ----
\* the pairs chosen in this iteration
ChosenPairs == {<<final_top_value[k].beam_id, final_top_value[k].vocab_id>> :
                   k \in 1..Len(final_top_value)}

AllPairs == {<<b, v>> : b \in 0..(Len(active_ids) - 1), v \in Vocab(tokenizer.vocab_size)}

\* parent.score + -log(probability) of a pair, from the model's row
PairScore(pair) == active_ids_prob[pair[1] + 1] + NegLog(batch_pred_y[pair[1] + 1][pair[2]])

\* C11 (under SpecWide, where vocab_size >= beam_width and every candidate has
\* more than beam_width ids of positive probability): the options chosen in an
\* iteration are beam_width different pairs, each with its combined score, and no
\* pair left out has a smaller combined score than a chosen one; so the scores
\* chosen are the beam_width smallest over all pairs.
C11_GloballyBest ==
    pc = "expand" =>
        /\ Len(final_top_value) = beam_width
        /\ Cardinality(ChosenPairs) = beam_width
        /\ \A k \in 1..Len(final_top_value) :
              LET obj == final_top_value[k]
              IN /\ obj.value = PairScore(<<obj.beam_id, obj.vocab_id>>)
                 /\ \A q \in AllPairs \ ChosenPairs : PairScore(q) >= obj.value

\* two candidates, options taken from both, and a pair outside the buffers that
\* could have been taken (it has positive probability)
C11_Witness ==
    /\ pc = "expand" /\ beam_width >= 2 /\ Len(active_ids) >= 2
    /\ \E j, k \in 1..Len(final_top_value) :
          final_top_value[j].beam_id # final_top_value[k].beam_id
    /\ \E q \in AllPairs \ ChosenPairs : PairScore(q) < InitMinValue

\* ---- the top-k buffer ----
\* the buffer of lines 109-127 when the ids 0 .. n-1 of a row have been offered
BufferAfter(row, n, bw) == OfferFrom(0, EmptyBuffer(bw), row, n, bw)

\* the vocabulary ids a buffer holds, and the slot of one of them
Held(buf) == {buf[i].vocab_id : i \in {j \in 1..Len(buf) : buf[j].tensor}}

SlotOf(buf, v) == CHOOSE i \in 1..Len(buf) : buf[i].tensor /\ buf[i].vocab_id = v

\* the pairs u < v of ids with the same probability in a row
TiedPairs(row) == {pair \in (DOMAIN row) \X (DOMAIN row) :
                      pair[1] < pair[2] /\ row[pair[1]] = row[pair[2]]}

\* C12 as stated: among ids of equal probability the lowest id wins: it is kept
\* whenever a higher one is, and it is ranked above it (nearer to the last slot).
C12_LowestIdWinsTies ==
    pc = "select" =>
        \A b \in 1..Len(top_value) : \A pair \in TiedPairs(batch_pred_y[b]) :
            LET buf == top_value[b]
                u == pair[1]
                v == pair[2]
            IN /\ v \in Held(buf) => u \in Held(buf)
               /\ (u \in Held(buf) /\ v \in Held(buf)) => SlotOf(buf, u) > SlotOf(buf, v)

\* the offers made while the buffers of this iteration were built: candidate b,
\* vocabulary id n, offered to the buffer that held the ids before n
Offers == {o \in (1..Len(batch_pred_y)) \X Vocab(tokenizer.vocab_size) : TRUE}

BufferBefore(o) == BufferAfter(batch_pred_y[o[1]], o[2], beam_width)

Offered(o) == batch_pred_y[o[1]][o[2]]

BufferNext(o) == Offer(BufferBefore(o), o[2], Offered(o), beam_width)

\* C13 as stated: an offer of a probability that is not strictly greater than the
\* probability in slot 0 (equal to it in particular) leaves the buffer unchanged.
\* Stated for buffers whose slot 0 holds a pair of the row, not a sentinel.
C13_NotGreaterRejected ==
    pc = "select" =>
        \A o \in Offers :
            (BufferBefore(o)[1].tensor /\ Offered(o) <= BufferBefore(o)[1].value)
                => BufferNext(o) = BufferBefore(o)

SortedAscending(buf) == \A i \in 1..(Len(buf) - 1) : buf[i].value <= buf[i + 1].value

RealSlots(buf) == {i \in 1..Len(buf) : buf[i].tensor}

MinOf(a, b) == IF a < b THEN a ELSE b

\* C14: every buffer has beam_width slots and is sorted ascending by probability
\* after every offer; when all vocab_size ids have been offered it holds
\* min(vocab_size, beam_width) different ids with their probabilities, no id left
\* out has a probability above slot 0 (the buffer holds the beam_width largest),
\* the largest probability is in the last slot, and no sentinel is left when
\* vocab_size >= beam_width.
C14_TopKBuffer ==
    pc = "select" =>
        /\ \A o \in Offers :
              Len(BufferNext(o)) = beam_width /\ SortedAscending(BufferNext(o))
        /\ \A b \in 1..Len(top_value) :
              LET buf == top_value[b]
                  row == batch_pred_y[b]
              IN /\ Len(buf) = beam_width
                 /\ SortedAscending(buf)
                 /\ \A i \in RealSlots(buf) : buf[i].value = row[buf[i].vocab_id]
                 /\ Cardinality(Held(buf)) = Cardinality(RealSlots(buf))
                 /\ Cardinality(RealSlots(buf)) = MinOf(tokenizer.vocab_size, beam_width)
                 /\ \A v \in DOMAIN row : v \notin Held(buf) => row[v] <= buf[1].value
                 /\ buf[beam_width].value = MaxProb(row)
                 /\ tokenizer.vocab_size >= beam_width => RealSlots(buf) = 1..beam_width

\* buffers of two slots filled from three ids: one leaves out an id with a
\* smaller probability than those kept, one holds two different probabilities
C14_Witness ==
    /\ pc = "select" /\ beam_width = 2 /\ tokenizer.vocab_size = 3
    /\ \E b \in 1..Len(top_value) : \E v \in DOMAIN batch_pred_y[b] :
          /\ v \notin Held(top_value[b])
          /\ batch_pred_y[b][v] < top_value[b][1].value
    /\ \E b \in 1..Len(top_value) : top_value[b][1].value < top_value[b][2].value

\* the options of positive probability in the buffers built for candidates b ..
RECURSIVE PositiveOptionsFrom(_)
PositiveOptionsFrom(b) ==
    IF b > Len(batch_pred_y) THEN 0
    ELSE LET buf == TopK(batch_pred_y[b], tokenizer.vocab_size, beam_width)
         IN Cardinality({i \in RealSlots(buf) : buf[i].value > 0})
            + PositiveOptionsFrom(b + 1)

\* C15: the selection never fails on a sentinel and never expands an option of
\* probability 0: every new candidate appends an id its parent's row gives a
\* positive probability, with a score below 999999999, and there are no more new
\* candidates than options of positive probability in the buffers.
C15_NoZeroOptionExpanded ==
    /\ error # "TypeError"
    /\ pc = "expand" =>
          /\ Len(final_top_value) <= PositiveOptionsFrom(1)
          /\ \A k \in 1..Len(final_top_value) :
                /\ OptionProb(final_top_value[k]) > 0
                /\ final_top_value[k].value < InitMinValue

\* ---- the loop's exit and the completed list ----
IsPrefix(s, t) == Len(s) <= Len(t) /\ \A i \in 1..Len(s) : s[i] = t[i]

InResult(ids) == \E k \in 1..Len(generate_result) : generate_result[k] = ids

\* C16: the partition that leaves no active candidate or brings the completed
\* list to beam_width entries is followed by the exit, whatever active candidates
\* remain, and no other partition is; the completed list only grows at its end,
\* during partitions; after the exit the list is returned in that order, each
\* entry as it is or without its trailing eos, and the model is not called again.
C16_StopsAtFirstExit ==
    [][/\ pc = "partition" =>
            /\ IsPrefix(generate_result, generate_result')
            /\ pc' \in {"strip", "forward"}
            /\ pc' = "strip" <=>
                  (Len(active_ids') = 0 \/ Len(generate_result') >= beam_width)
       /\ pc = "strip" =>
            /\ pc' = "returned"
            /\ forward_calls' = forward_calls
            /\ Len(generate_result') = Len(generate_result)
            /\ \A k \in 1..Len(generate_result) :
                  \/ generate_result'[k] = generate_result[k]
                  \/ generate_result[k] = Append(generate_result'[k], eos_token_id)
       /\ pc \notin {"partition", "strip"} => generate_result' = generate_result
      ]_vars

\* the exit taken with beam_width results while an active candidate remains whose
\* score is lower than that of a candidate completed in the same iteration
C16_Witness ==
    /\ pc = "strip" /\ Len(active_ids) > 0 /\ Len(generate_result) = beam_width
    /\ \E i, j \in 1..Len(all_ids) :
          /\ IsActive(all_ids[i], max_len)
          /\ ~IsActive(all_ids[j], max_len) /\ InResult(all_ids[j])
          /\ all_ids_prob[i] < all_ids_prob[j]

\* the complete candidates among ids_list, in order
CompleteOf(ids_list) == SelectSeq(ids_list, LAMBDA ids : ~IsActive(ids, max_len))

FirstN(s, n) == SubSeq(s, 1, MinOf(n, Len(s)))

\* C17: a partition appends to the completed list the complete candidates of the
\* iteration, in order, as long as the list has fewer than beam_width entries, and
\* drops the others; the entries already stored stay as they are, in place.
C17_DroppedAtCap ==
    [][pc = "partition" =>
          /\ generate_result' =
                generate_result \o
                    FirstN(CompleteOf(all_ids), Max0(beam_width - Len(generate_result)))
          /\ Len(generate_result) >= beam_width => generate_result' = generate_result
      ]_vars

\* after a partition: a complete candidate of the iteration is not in the list,
\* which holds beam_width >= 2 entries, the first of them from an earlier iteration
C17_Witness ==
    /\ pc = "strip" /\ beam_width >= 2 /\ Len(generate_result) = beam_width
    /\ \E j \in 1..Len(all_ids) :
          ~IsActive(all_ids[j], max_len) /\ ~InResult(all_ids[j])
    /\ Len(generate_result[1]) < Len(all_ids[1])

\* ---- the rounds of the global selection ----
\* the buffers as built by lines 104-129 in this iteration
BuiltBuffers == [b \in 1..Len(batch_pred_y) |->
                    TopK(batch_pred_y[b], tokenizer.vocab_size, beam_width)]

\* the buffers at the start of round i (i = 0 .. beam_width-1) of lines 134-152
BuffersAtRound(i) == SelectFrom(0, BuiltBuffers, active_ids_prob, <<>>, i).top_value

\* the combined score line 140 computes for candidate beam_id from buffers tv
TopScore(tv, b) == NegLog(tv[b + 1][Len(tv[b + 1])].value) + active_ids_prob[b + 1]

\* C18: the option chosen in a round has the smallest combined score among the
\* tops of the buffers, and among candidates whose tops have that score it
\* belongs to the one with the lowest index.
C18_FirstSeenWinsTies ==
    pc = "expand" =>
        \A k \in 1..Len(final_top_value) :
            LET tv == BuffersAtRound(k - 1)
                obj == final_top_value[k]
            IN /\ \A b \in 0..(Len(active_ids) - 1) :
                     /\ TopScore(tv, b) >= obj.value
                     /\ TopScore(tv, b) = obj.value => obj.beam_id <= b
               /\ obj.value < InitMinValue =>
                     /\ obj.value = TopScore(tv, obj.beam_id)
                     /\ obj.vocab_id = Last(tv[obj.beam_id + 1]).vocab_id

\* a round in which the tops of two candidates had the same combined score
C18_Witness ==
    /\ pc = "expand"
    /\ \E k \in 1..Len(final_top_value) : \E b \in 0..(Len(active_ids) - 1) :
          /\ b # final_top_value[k].beam_id
          /\ final_top_value[k].value < InitMinValue
          /\ TopScore(BuffersAtRound(k - 1), b) = final_top_value[k].value

\* ---- no option is used twice ----
PairwiseDistinct(s) == \A i, j \in 1..Len(s) : i # j => s[i] # s[j]

\* C19: within one iteration no (parent candidate, vocabulary id) pair is
\* chosen twice, the new candidates are pairwise distinct sequences, and for
\* vocab_size >= beam_width the returned sequences are pairwise distinct.
C19_NoOptionReused ==
    /\ pc = "expand" =>
          PairwiseDistinct([k \in 1..Len(final_top_value) |->
                               <<final_top_value[k].beam_id, final_top_value[k].vocab_id>>])
    /\ pc = "partition" => PairwiseDistinct(all_ids)
    /\ (pc = "returned" /\ tokenizer.vocab_size >= beam_width) =>
          PairwiseDistinct(generate_result)

\* ---- the batch passed to the model ----
\* id of the padding token
pad_token_id == 0

\* lines 96-99: every sequence right-padded to the longest of the batch
PadSequence(batch, pad) ==
    LET longest == CHOOSE m \in {Len(batch[b]) : b \in 1..Len(batch)} \cup {0} :
                       \A b \in 1..Len(batch) : Len(batch[b]) <= m
    IN [b \in 1..Len(batch) |->
           batch[b] \o [i \in 1..(longest - Len(batch[b])) |-> pad]]

\* line 106: the position of the batch read for a candidate (0-based)
ReadPosition(ids) == Len(ids) - 1

\* expansion steps (lines 155-159) completed so far
StepsDone == IF pc \in {"select", "expand"} THEN forward_calls - 1 ELSE forward_calls

\* C20: at the start of every iteration all candidates have length
\* len(seed) + t, t the number of expansion steps done; so the batch passed to
\* the model equals the active candidates (no padding token is added) and the
\* position read for each candidate is the last column of the batch.
C20_Rectangular ==
    /\ pc = "partition" =>
          \A j \in 1..Len(all_ids) :
              Len(all_ids[j]) = Len(begin_of_sentence) + StepsDone
    /\ pc = "forward" =>
          LET batch_x == PadSequence(active_ids, pad_token_id)
          IN /\ batch_x = active_ids
             /\ \A b \in 1..Len(active_ids) :
                   /\ Len(active_ids[b]) = Len(begin_of_sentence) + StepsDone
                   /\ ReadPosition(active_ids[b]) = Len(batch_x[b]) - 1

\* a batch of several candidates after at least one expansion step
C20_Witness ==
    /\ pc = "forward" /\ forward_calls >= 1 /\ Len(active_ids) >= 2
    /\ \E b \in 1..Len(active_ids) : active_ids[b] # active_ids[1]

\* ---- buffers are never read while empty ----
\* the state of the selection when round i (0-based) is about to start
BeforeRound(i) == SelectFrom(0, BuiltBuffers, active_ids_prob, <<>>, i)

\* C21: in round i (i = 0 .. beam_width-1) of the global selection every active
\* candidate's buffer holds at least beam_width - i >= 1 entries when its last
\* slot is read, for 1 .. beam_width active candidates, so neither the read of
\* the last slot nor the pop finds an empty buffer (no IndexError).
C21_NeverReadEmpty ==
    /\ error # "IndexError"
    /\ pc = "select" =>
          /\ Len(active_ids) \in 1..beam_width
          /\ Len(top_value) = Len(active_ids)
          /\ \A i \in 0..(beam_width - 1) :
                LET r == BeforeRound(i)
                IN r.error = "none" =>
                       /\ beam_width - i >= 1
                       /\ \A b \in 1..Len(active_ids) :
                              Len(r.top_value[b]) >= beam_width - i
    /\ pc = "expand" => Len(final_top_value) = beam_width

\* one active candidate and several rounds: every round popped the same buffer,
\* which held exactly one entry in the last round and is empty afterwards
C21_Witness ==
    /\ pc = "expand" /\ beam_width >= 2 /\ Len(active_ids) = 1
    /\ top_value[1] = <<>>
    /\ Len(final_top_value) = beam_width

====
